---- MODULE Spec2Model ----
(***************************************************************************)
(* nix-gcroot-relay: a guest-side agent (src/client/main.py) scans its GC  *)
(* root registry and relays the set of valid roots, and later its changes, *)
(* over a byte stream to a host-side listener (src/server/main.py), which  *)
(* mirrors them as symlinks in a per-guest directory.                      *)
(*                                                                         *)
(* Paths are sequences of components (the absolute path /nix/store/x is    *)
(* <<"nix", "store", "x">>); a path string on the wire is the sequence of  *)
(* the components between its slashes.                                     *)
(***************************************************************************)
EXTENDS Integers, Sequences, FiniteSets, TLC

VARIABLES
    gfs,        \* guest filesystem: path -> entry (absent, file or symlink)
    apc,        \* agent: position in client main()
    old_roots,  \* agent: the remembered snapshot (client main, old_roots)
    sent,       \* agent: the messages handed to sendall so far, in order
    peer,       \* who writes the stream: the agent or a compromised guest
    stream,     \* bytes written and not yet read, as JSON texts and newlines
    closed,     \* the writing end of the stream is closed
    lpc,        \* listener: position in server main()
    cur,        \* listener: the message being processed
    idx,        \* listener: position in the pair list being iterated
    toClear,    \* listener: entries listed by iterdir() still to unlink
    mdirs,      \* host filesystem under the mirror root: dir name -> dir
    gcActed,    \* the external collector has deleted a mirror entry
    cycle,      \* agent: what the latest polling cycle did
    vm_gcroots  \* listener: name of the guest's mirror directory

vars == <<gfs, apc, old_roots, sent, peer, stream, closed,
          lpc, cur, idx, toClear, mdirs, gcActed, cycle,
          vm_gcroots>>

agentVars == <<gfs, apc, old_roots, sent, cycle>>
wireVars == <<stream, closed>>
listenerVars == <<lpc, cur, idx, toClear, mdirs, vm_gcroots>>

----------------------------------------------------------------------------
(* Bounds *)

\* messages the agent sends in one session (the init message included)
MaxMsgs == 2
\* pairs in a "roots" or "added" list written by a compromised guest
MaxPairs == 2
\* pairs in a "removed" list written by a compromised guest
MaxRemoved == 1

----------------------------------------------------------------------------
(* Paths *)

\* --store, the same on both sides
StoreRoot == <<"nix", "store">>
\* --gcroots of the agent
GcrootsDir == <<"gcroots">>

IsPrefix(a, b) == Len(a) <= Len(b) /\ SubSeq(b, 1, Len(a)) = a

\* PurePath.is_relative_to: lexical, true of the path itself
is_relative_to(d, base) == IsPrefix(base, d)

\* PurePath.parents: the proper lexical ancestors
parents(p) == {SubSeq(p, 1, n) : n \in 0..(Len(p) - 1)}

\* Path(s): the components of the string, "." and empty components dropped,
\* ".." kept as it is
PathOf(s) == SelectSeq(s, LAMBDA c : c \notin {"", "."})

\* str(p)
StrOf(p) == p

RECURSIVE NormFrom(_, _)
NormFrom(done, rest) ==
    IF rest = <<>> THEN done
    ELSE IF Head(rest) = ".."
         THEN NormFrom(IF done = <<>> THEN done
                       ELSE SubSeq(done, 1, Len(done) - 1), Tail(rest))
         ELSE NormFrom(Append(done, Head(rest)), Tail(rest))

\* the path a symlink target denotes once the kernel has walked its ".."
\* components (no intermediate directory of the model is a symlink)
Denoted(p) == NormFrom(<<>>, p)

IsDescendant(p, base) == IsPrefix(base, p) /\ p # base

----------------------------------------------------------------------------
(* Guest filesystem *)

ra == <<"gcroots", "a">>
rb == <<"gcroots", "b">>
pm == <<"home", "m">>
sx == <<"nix", "store", "x">>
sy == <<"nix", "store", "y">>

RootLinks == {ra, rb}
GuestPaths == {ra, rb, pm, sx, sy}

Absent == [kind |-> "absent", target |-> <<>>]
File == [kind |-> "file", target |-> <<>>]
LinkTo(p) == [kind |-> "link", target |-> p]

\* what a path outside the store can be
Entries == {Absent, File} \cup {LinkTo(p) : p \in GuestPaths}
\* what a store object can be: store objects may be links to one another
StoreEntries == {Absent, File, LinkTo(sx), LinkTo(sy)}

EntryAt(fs, p) == IF p \in DOMAIN fs THEN fs[p] ELSE Absent

is_symlink(fs, p) == EntryAt(fs, p).kind = "link"

NoneResult == [k |-> "none", p |-> <<>>]
Diverges == [k |-> "diverges", p |-> <<>>]
Resolved(p) == [k |-> "path", p |-> p]

\* a resolver that goes on dereferencing inside the store
RECURSIVE ResolveFromThrough(_, _, _, _)
ResolveFromThrough(fs, store_path, p, seen) ==
    IF store_path \in parents(p) /\ ~is_symlink(fs, p) THEN Resolved(p)
    ELSE IF ~is_symlink(fs, p) THEN NoneResult
    ELSE IF p \in seen THEN Diverges
    ELSE ResolveFromThrough(fs, store_path, EntryAt(fs, p).target,
                            seen \cup {p})

RECURSIVE ResolveFrom(_, _, _, _)
ResolveFrom(fs, store_path, p, seen) ==
    IF store_path \in parents(p) THEN Resolved(p)
    ELSE IF ~is_symlink(fs, p) THEN NoneResult   \* readlink raises OSError
    ELSE IF p \in seen THEN Diverges             \* the loop never exits
    ELSE ResolveFrom(fs, store_path, EntryAt(fs, p).target, seen \cup {p})

\* resolve_until_store(store_path, p); Diverges when the while loop comes
\* back to a path it has already dereferenced, which on an unchanged
\* filesystem repeats forever
resolve_until_store(fs, store_path, p) == ResolveFrom(fs, store_path, p, {})

\* the symlinks that gcroots_dir.walk() lists
WalkedLinks(fs, gcroots_dir) ==
    {l \in DOMAIN fs : IsDescendant(l, gcroots_dir) /\ is_symlink(fs, l)}

StoreTargetOf(fs, store_path, l) ==
    resolve_until_store(fs, store_path, EntryAt(fs, l).target)

\* find_roots(store_path, gcroots_dir): the snapshot, or Diverges when one
\* of the resolutions never returns
find_roots(fs, store_path, gcroots_dir) ==
    LET roots == WalkedLinks(fs, gcroots_dir)
        valid == {l \in roots : StoreTargetOf(fs, store_path, l).k = "path"}
    IN IF \E l \in roots : StoreTargetOf(fs, store_path, l) = Diverges
       THEN [k |-> "diverges", snap |-> <<>>]
       ELSE [k |-> "snap",
             snap |-> [l \in valid |-> StoreTargetOf(fs, store_path, l).p]]

----------------------------------------------------------------------------
(* Snapshots and their difference *)

\* dict.items()
Items(snap) == {<<r, snap[r]>> : r \in DOMAIN snap}

\* a comparison that always reports a change
SnapshotChangedAlways(valid_roots, old) == TRUE

\* valid_roots != old_roots
SnapshotChanged(valid_roots, old) == valid_roots # old

\* a difference by key: a root whose target changed is not reported
AddedPairsByKey(valid_roots, old) ==
    {pr \in Items(valid_roots) : pr[1] \notin DOMAIN old}

\* new_roots = valid_roots.items() - old_roots.items()
AddedPairs(valid_roots, old) == Items(valid_roots) \ Items(old)

\* removed_roots = old_roots.items() - valid_roots.items()
RemovedPairs(valid_roots, old) == Items(old) \ Items(valid_roots)

\* the orders in which a set of pairs can be iterated into a list
Orderings(S) ==
    {q \in [1..Cardinality(S) -> S] : \A i, j \in 1..Cardinality(S) :
                                          q[i] = q[j] => i = j}

\* [(str(r), str(t)) for r, t in pairs]
PairList(q) == [i \in 1..Len(q) |-> <<StrOf(q[i][1]), StrOf(q[i][2])>>]

----------------------------------------------------------------------------
(* Wire *)

\* the guest identity given on the agent's command line
GuestUuid == 1

\* uuid.hex: 32 hex characters, no separators
UuidHex(u) == [u |-> u, form |-> "hex"]
\* a rendering of the identity without separators
UuidStrNoHyphens(u) == [u |-> u, form |-> "hex"]

\* str(uuid): the hyphenated 8-4-4-4-12 form
UuidStr(u) == [u |-> u, form |-> "hyphens"]

NL == [t |-> "nl"]
JsonText(obj) == [t |-> "json", v |-> obj]

\* json_to_bytes(obj): the JSON text of obj and nothing after it
json_to_bytes(obj) == <<JsonText(obj)>>

\* an init message that leaves the roots out
InitMsgNoRoots(id, roots) == [type |-> "init", id |-> id, roots |-> <<>>]

InitMsg(id, roots) == [type |-> "init", id |-> id, roots |-> roots]
UpdateMsg(added, removed) ==
    [type |-> "update", added |-> added, removed |-> removed]

----------------------------------------------------------------------------
(* Agent: client main() *)

\* what the guest's root-tracking makes of a root link while the agent
\* runs: gone, a link to a store object, or a link to the root a
RootEntries == {Absent, LinkTo(sx), LinkTo(sy), LinkTo(ra)}

\* old_roots = find_roots(store_path, gcroots_dir), before connecting
AgentScan ==
    /\ peer = "agent" /\ apc = "start"
    /\ LET r == find_roots(gfs, StoreRoot, GcrootsDir)
       IN IF r.k = "diverges"
          THEN apc' = "scan_hung" /\ UNCHANGED old_roots
          ELSE apc' = "connect" /\ old_roots' = r.snap
    /\ UNCHANGED <<gfs, sent, cycle, peer, wireVars, listenerVars, gcActed>>

\* s.connect((cid, port)); a failure ends the process
AgentConnect ==
    /\ peer = "agent" /\ apc = "connect"
    /\ \E ok \in BOOLEAN : apc' = IF ok THEN "register" ELSE "terminated"
    /\ UNCHANGED <<gfs, old_roots, sent, cycle, peer, wireVars,
                   listenerVars, gcActed>>

\* s.sendall(json_to_bytes({"type": "init", ...})); a failure ends the
\* process and closes the socket
AgentSendInit ==
    /\ peer = "agent" /\ apc = "register"
    /\ \E q \in Orderings(Items(old_roots)), ok \in BOOLEAN :
         LET msg == InitMsg(UuidHex(GuestUuid), PairList(q))
         IN IF ok
            THEN /\ stream' = stream \o json_to_bytes(msg)
                 /\ sent' = Append(sent, msg)
                 /\ apc' = "poll"
                 /\ UNCHANGED closed
            ELSE /\ apc' = "terminated" /\ closed' = TRUE
                 /\ UNCHANGED <<stream, sent>>
    /\ UNCHANGED <<gfs, old_roots, cycle, peer, listenerVars, gcActed>>

\* one turn of the while True loop: sleep, scan, send the difference if
\* the scan differs, then remember the scan
AgentPoll ==
    /\ peer = "agent" /\ apc = "poll"
    /\ LET r == find_roots(gfs, StoreRoot, GcrootsDir)
       IN IF r.k = "diverges"
          THEN /\ apc' = "poll_hung"
               /\ UNCHANGED <<old_roots, sent, cycle, wireVars>>
          ELSE IF ~SnapshotChanged(r.snap, old_roots)
          THEN /\ cycle' = "same"
               /\ UNCHANGED <<apc, old_roots, sent, wireVars>>
          ELSE /\ Len(sent) < MaxMsgs
               /\ \E qa \in Orderings(AddedPairs(r.snap, old_roots)),
                     qr \in Orderings(RemovedPairs(r.snap, old_roots)),
                     ok \in BOOLEAN :
                    LET msg == UpdateMsg(PairList(qa), PairList(qr))
                    IN IF ok
                       THEN /\ stream' = stream \o json_to_bytes(msg)
                            /\ sent' = Append(sent, msg)
                            /\ old_roots' = r.snap
                            /\ cycle' = "sent"
                            /\ UNCHANGED <<apc, closed>>
                       ELSE /\ apc' = "terminated" /\ closed' = TRUE
                            /\ UNCHANGED <<old_roots, sent, cycle, stream>>
    /\ UNCHANGED <<gfs, peer, listenerVars, gcActed>>

\* the process is ended from outside while it holds the socket (leaving
\* the with block closes it)
AgentTerminate ==
    /\ peer = "agent" /\ apc \in {"register", "poll", "poll_hung"}
    /\ apc' = "terminated" /\ closed' = TRUE
    /\ UNCHANGED <<gfs, old_roots, sent, cycle, peer, stream,
                   listenerVars, gcActed>>

\* the guest's root-tracking creates, removes or re-points a root link
\* while the agent runs
GuestRootChange ==
    /\ peer = "agent"
    /\ apc \in {"start", "connect", "register", "poll"}
    /\ \E p \in RootLinks, e \in RootEntries :
         /\ gfs[p] # e
         /\ gfs' = [gfs EXCEPT ![p] = e]
    /\ UNCHANGED <<apc, old_roots, sent, cycle, peer, wireVars,
                   listenerVars, gcActed>>

----------------------------------------------------------------------------
(* Host filesystem under the mirror root *)

\* sha1(s.encode('utf-8')).hexdigest(): one name per string
Digest(s) == [sha1 |-> s]

NoDir == [exists |-> FALSE, entries |-> <<>>]
DirOf(entries) == [exists |-> TRUE, entries |-> entries]

DirNames == {UuidStr(GuestUuid), UuidHex(GuestUuid)}

\* a root string of an earlier session that no longer exists in the guest
StaleRoot == <<"gcroots", "old">>

\* what an earlier session left in the guest's mirror directory
LeftOver ==
    DirOf((Digest(StrOf(ra)) :> sy) @@ (Digest(StaleRoot) :> sx))

Remove(entries, name) ==
    [n \in (DOMAIN entries) \ {name} |-> entries[n]]

\* an unlink that leaves the entry in place
UnlinkKeeps(dir, name) == dir

\* Path.unlink(missing_ok=True)
Unlink(dir, name) == DirOf(Remove(dir.entries, name))

\* Path.symlink_to(d): FileExistsError when the name is taken
SymlinkTo(dir, name, d) ==
    IF name \in DOMAIN dir.entries
    THEN [ok |-> FALSE, dir |-> dir]
    ELSE [ok |-> TRUE, dir |-> DirOf((name :> d) @@ dir.entries)]

\* Path.mkdir(parents=True, exist_ok=True)
Mkdir(dir) == IF dir.exists THEN dir ELSE DirOf(<<>>)

\* the external garbage collector removes a mirror entry
CollectorDelete ==
    /\ \E d \in DirNames : \E name \in DOMAIN mdirs[d].entries :
         mdirs' = [mdirs EXCEPT ![d] = Unlink(mdirs[d], name)]
    /\ gcActed' = TRUE
    /\ UNCHANGED <<agentVars, peer, wireVars, lpc, cur, idx, toClear,
                   vm_gcroots>>

----------------------------------------------------------------------------
(* Listener: lines() and json_stream() *)

HasLine(s) == \E i \in 1..Len(s) : s[i] = NL
FirstNL(s) == CHOOSE i \in 1..Len(s) :
                  s[i] = NL /\ \A j \in 1..(i - 1) : s[j] # NL

\* f.readline() returns once a newline or the end of the stream is there
CanRead == HasLine(stream) \/ closed

\* f.readline(): up to and including the first newline, or what is left
ReadLine(s) == IF HasLine(s) THEN SubSeq(s, 1, FirstNL(s)) ELSE s
AfterLine(s) == IF HasLine(s) THEN SubSeq(s, FirstNL(s) + 1, Len(s)) ELSE <<>>

\* json.loads(line): the line must hold one JSON text and nothing else
json_loads(line) ==
    LET texts == SelectSeq(line, LAMBDA t : t.t = "json")
    IN IF Len(texts) = 1
       THEN [ok |-> TRUE, v |-> texts[1].v]
       ELSE [ok |-> FALSE, v |-> [type |-> "none"]]

\* UUID(s) accepts the hex digits with or without hyphens
ValidUuid(s) == s.form \in {"hex", "hyphens"}

NoMsg == [type |-> "none"]

----------------------------------------------------------------------------
(* Listener: server main() *)

Fail == lpc' = "failed" /\ UNCHANGED <<cur, idx, toClear, mdirs, vm_gcroots>>

\* initial = next(js) up to the listing of the guest's directory
LReadInit ==
    /\ lpc = "await_init" /\ CanRead
    /\ stream' = AfterLine(stream)
    /\ LET line == ReadLine(stream)
           m == json_loads(line)
       IN IF line = <<>> \/ ~m.ok THEN Fail   \* StopIteration, JSONDecodeError
          ELSE IF "id" \notin DOMAIN m.v \/ "roots" \notin DOMAIN m.v
          THEN Fail                            \* KeyError
          ELSE IF ~ValidUuid(m.v.id) THEN Fail \* ValueError
          ELSE LET d == UuidStr(m.v.id.u)
                   made == Mkdir(mdirs[d])
               IN /\ cur' = m.v
                  /\ vm_gcroots' = d
                  /\ mdirs' = [mdirs EXCEPT ![d] = made]
                  /\ toClear' = DOMAIN made.entries
                  /\ idx' = 1
                  /\ lpc' = IF made.entries = <<>> THEN "init_register"
                            ELSE "clearing"
    /\ UNCHANGED <<agentVars, peer, closed, gcActed>>

\* a clearing loop that passes over the entries without removing them
LClearStepSkipping ==
    /\ lpc = "clearing"
    /\ \E name \in toClear :
         /\ toClear' = toClear \ {name}
         /\ lpc' = IF toClear' = {} THEN "init_register" ELSE "clearing"
    /\ UNCHANGED <<agentVars, peer, wireVars, cur, idx, vm_gcroots, gcActed,
                   mdirs>>

\* one turn of: for link in vm_gcroots.iterdir(): link.unlink(missing_ok)
LClearStep ==
    /\ lpc = "clearing"
    /\ \E name \in toClear :
         /\ mdirs' = [mdirs EXCEPT
                        ![vm_gcroots] = Unlink(mdirs[vm_gcroots], name)]
         /\ toClear' = toClear \ {name}
         /\ lpc' = IF toClear' = {} THEN "init_register" ELSE "clearing"
    /\ UNCHANGED <<agentVars, peer, wireVars, cur, idx, vm_gcroots, gcActed>>

\* the list register_roots iterates
RegisterList == IF lpc = "init_register" THEN cur.roots ELSE cur.added

\* one turn of the loop of register_roots over parse_paths, or its end
LRegisterStep ==
    /\ lpc \in {"init_register", "register"}
    /\ IF idx > Len(RegisterList)
       THEN /\ lpc' = "active" /\ cur' = NoMsg /\ idx' = 1
            /\ UNCHANGED <<toClear, mdirs, vm_gcroots>>
       ELSE LET pp == RegisterList[idx]
            IN IF Len(pp) < 2 THEN Fail        \* IndexError in parse_paths
               ELSE LET r == Digest(pp[1])
                        d == PathOf(pp[2])
                        made == SymlinkTo(mdirs[vm_gcroots], r, d)
                    IN IF ~is_relative_to(d, StoreRoot)
                       THEN /\ idx' = idx + 1
                            /\ UNCHANGED <<lpc, cur, toClear, mdirs,
                                           vm_gcroots>>
                       ELSE IF ~made.ok THEN Fail   \* FileExistsError
                       ELSE /\ mdirs' = [mdirs EXCEPT ![vm_gcroots] = made.dir]
                            /\ idx' = idx + 1
                            /\ UNCHANGED <<lpc, cur, toClear, vm_gcroots>>
    /\ UNCHANGED <<agentVars, peer, wireVars, gcActed>>

\* a loop over the updates that registers without unregistering first
LReadUpdateSkipUnregister ==
    /\ lpc = "active" /\ CanRead /\ ReadLine(stream) # <<>>
    /\ stream' = AfterLine(stream)
    /\ LET m == json_loads(ReadLine(stream))
       IN IF ~m.ok THEN Fail
          ELSE IF "added" \notin DOMAIN m.v THEN Fail
          ELSE /\ cur' = m.v /\ idx' = 1 /\ lpc' = "register"
               /\ UNCHANGED <<toClear, mdirs, vm_gcroots>>
    /\ UNCHANGED <<agentVars, peer, closed, gcActed>>

\* for update in js: the next line is there and update["removed"] is read
LReadUpdate ==
    /\ lpc = "active" /\ CanRead /\ ReadLine(stream) # <<>>
    /\ stream' = AfterLine(stream)
    /\ LET m == json_loads(ReadLine(stream))
       IN IF ~m.ok THEN Fail                   \* JSONDecodeError
          ELSE IF "removed" \notin DOMAIN m.v THEN Fail   \* KeyError
          ELSE /\ cur' = m.v /\ idx' = 1 /\ lpc' = "unregister"
               /\ UNCHANGED <<toClear, mdirs, vm_gcroots>>
    /\ UNCHANGED <<agentVars, peer, closed, gcActed>>

\* an unregister loop whose unlink raises on a name that is not there
LUnregisterStepStrict ==
    /\ lpc = "unregister"
    /\ IF idx > Len(cur.removed)
       THEN IF "added" \notin DOMAIN cur THEN Fail
            ELSE /\ lpc' = "register" /\ idx' = 1
                 /\ UNCHANGED <<cur, toClear, mdirs, vm_gcroots>>
       ELSE LET pp == cur.removed[idx]
            IN IF Len(pp) < 2 THEN Fail
               ELSE IF Digest(pp[1]) \notin DOMAIN mdirs[vm_gcroots].entries
               THEN Fail
               ELSE /\ mdirs' = [mdirs EXCEPT ![vm_gcroots] =
                                    Unlink(mdirs[vm_gcroots], Digest(pp[1]))]
                    /\ idx' = idx + 1
                    /\ UNCHANGED <<lpc, cur, toClear, vm_gcroots>>
    /\ UNCHANGED <<agentVars, peer, wireVars, gcActed>>

\* one turn of the loop of unregister_roots over parse_paths; at its end
\* update["added"] is read for register_roots
LUnregisterStep ==
    /\ lpc = "unregister"
    /\ IF idx > Len(cur.removed)
       THEN IF "added" \notin DOMAIN cur THEN Fail   \* KeyError
            ELSE /\ lpc' = "register" /\ idx' = 1
                 /\ UNCHANGED <<cur, toClear, mdirs, vm_gcroots>>
       ELSE LET pp == cur.removed[idx]
            IN IF Len(pp) < 2 THEN Fail        \* IndexError in parse_paths
               ELSE /\ mdirs' = [mdirs EXCEPT ![vm_gcroots] =
                                    Unlink(mdirs[vm_gcroots], Digest(pp[1]))]
                    /\ idx' = idx + 1
                    /\ UNCHANGED <<lpc, cur, toClear, vm_gcroots>>
    /\ UNCHANGED <<agentVars, peer, wireVars, gcActed>>

\* an exit that removes the guest's entries
LCloseUnlinking ==
    /\ lpc = "active" /\ CanRead /\ ReadLine(stream) = <<>>
    /\ lpc' = "closed"
    /\ mdirs' = [mdirs EXCEPT ![vm_gcroots] = DirOf(<<>>)]
    /\ UNCHANGED <<agentVars, peer, wireVars, cur, idx, toClear,
                   vm_gcroots, gcActed>>

\* readline() returns '': the for loop ends, STOPPING=1 is notified
LClose ==
    /\ lpc = "active" /\ CanRead /\ ReadLine(stream) = <<>>
    /\ lpc' = "closed"
    /\ UNCHANGED <<agentVars, peer, wireVars, cur, idx, toClear, mdirs,
                   vm_gcroots, gcActed>>

----------------------------------------------------------------------------
(* A compromised guest writes the stream itself *)

EtcPasswd == <<"etc", "passwd">>
DotDotPasswd == <<"nix", "store", "..", "..", "etc", "passwd">>

AdvRoots == {StrOf(ra), StrOf(rb)}
AdvTargets == {sx, sy, StoreRoot, DotDotPasswd, EtcPasswd}
AdvPairs == {<<r, t>> : r \in AdvRoots, t \in AdvTargets}
\* the listener ignores the target of a removed pair
AdvRemovedPairs == {<<r, sx>> : r \in AdvRoots}

ListsUpTo(S, n) == UNION {[1..k -> S] : k \in 0..n}

AdvIds == {UuidHex(GuestUuid), [u |-> 0, form |-> "garbage"]}

AdvInits == {InitMsg(id, l) : id \in AdvIds, l \in ListsUpTo(AdvPairs, MaxPairs)}
AdvUpdates ==
    {UpdateMsg(a, r) : a \in ListsUpTo(AdvPairs, MaxPairs),
                       r \in ListsUpTo(AdvRemovedPairs, MaxRemoved)}
\* messages that lack a field, carry a malformed pair, or carry the fields
\* of the other kind
AdvMalformed ==
    { [type |-> "init", id |-> UuidHex(GuestUuid)],
      [type |-> "update", removed |-> << <<StrOf(ra), sx>> >>],
      [type |-> "update", added |-> << <<StrOf(rb), sy>>, <<StrOf(ra)>> >>,
                          removed |-> << <<StrOf(ra), sx>> >>],
      [type |-> "update", id |-> UuidHex(GuestUuid),
                          roots |-> << <<StrOf(ra), sx>> >>,
                          added |-> <<>>, removed |-> <<>>],
      [type |-> "init", id |-> UuidHex(GuestUuid),
                        roots |-> << <<StrOf(ra), sx>> >>,
                        added |-> << <<StrOf(rb), sy>> >>,
                        removed |-> << <<StrOf(ra), sx>> >>] }

AdvMsgs == AdvInits \cup AdvUpdates \cup AdvMalformed

\* one line at a time: the next one is written once the listener has read
\* the one before
AdvSend ==
    /\ peer = "adversary" /\ ~closed /\ stream = <<>>
    /\ lpc \in {"await_init", "active"}
    /\ \E line \in {<<JsonText(m), NL>> : m \in AdvMsgs} \cup {<<NL>>} :
         stream' = line
    /\ UNCHANGED <<agentVars, peer, closed, listenerVars, gcActed>>

AdvClose ==
    /\ peer = "adversary" /\ ~closed
    /\ closed' = TRUE
    /\ UNCHANGED <<agentVars, peer, stream, listenerVars, gcActed>>

----------------------------------------------------------------------------
(* The system *)

InitGfs == [p \in GuestPaths |->
               IF p = pm THEN LinkTo(sx)
               ELSE IF p \in RootLinks THEN Absent ELSE File]

Init ==
    /\ peer \in {"agent", "adversary"}
    /\ gfs = InitGfs
    /\ apc = IF peer = "agent" THEN "start" ELSE "off"
    /\ old_roots = <<>>
    /\ sent = <<>>
    /\ cycle = "none"
    /\ stream = <<>>
    /\ closed = FALSE
    /\ lpc = "await_init"
    /\ cur = NoMsg
    /\ idx = 1
    /\ toClear = {}
    /\ vm_gcroots = UuidStr(0)
    /\ mdirs \in {[d \in DirNames |-> IF d = UuidStr(GuestUuid) THEN x ELSE NoDir]
                     : x \in {NoDir, LeftOver}}
    /\ gcActed = FALSE

Next ==
    \/ AgentScan
    \/ AgentConnect
    \/ AgentSendInit
    \/ AgentPoll
    \/ AgentTerminate
    \/ GuestRootChange
    \/ AdvSend
    \/ AdvClose
    \/ LReadInit
    \/ LClearStep
    \/ LRegisterStep
    \/ LReadUpdate
    \/ LUnregisterStep
    \/ LClose
    \/ CollectorDelete

Spec == Init /\ [][Next]_vars

TypeOK ==
    /\ apc \in {"off", "start", "scan_hung", "connect", "register", "poll",
                 "poll_hung", "terminated"}
    /\ lpc \in {"await_init", "clearing", "init_register", "active",
                 "unregister", "register", "closed", "failed"}
    /\ Len(sent) <= MaxMsgs
    /\ cycle \in {"none", "same", "sent"}

----------------------------------------------------------------------------
(* The scanner alone, on every guest filesystem of the universe *)

InitScan ==
    /\ peer = "agent"
    /\ gfs \in {f \in [GuestPaths -> Entries] :
                   f[sx] \in StoreEntries /\ f[sy] \in StoreEntries}
    /\ apc = "start"
    /\ old_roots = <<>>
    /\ sent = <<>>
    /\ cycle = "none"
    /\ stream = <<>>
    /\ closed = FALSE
    /\ lpc = "await_init"
    /\ cur = NoMsg
    /\ idx = 1
    /\ toClear = {}
    /\ vm_gcroots = UuidStr(0)
    /\ mdirs = [d \in DirNames |-> NoDir]
    /\ gcActed = FALSE

NextScan == AgentScan

SpecScan == InitScan /\ [][NextScan]_vars

----------------------------------------------------------------------------
(* The agent alone, with a polling loop that keeps turning *)

InitAgent == Init /\ peer = "agent"

NextAgent ==
    \/ AgentScan
    \/ AgentConnect
    \/ AgentSendInit
    \/ AgentPoll
    \/ AgentTerminate
    \/ GuestRootChange

\* while True: sleep(args.interval); ... : a turn of the loop that can be
\* taken is eventually taken
SpecAgentFair == InitAgent /\ [][NextAgent]_vars /\ WF_vars(AgentPoll)

----------------------------------------------------------------------------
(* Properties *)

\* the entries of the mirror directories, as (name, target)
MirrorEntries ==
    UNION {{<<n, mdirs[d].entries[n]>> : n \in DOMAIN mdirs[d].entries}
           : d \in DirNames}

\* the listener has registered a guest
Registered == vm_gcroots \in DirNames

\* the pair register_roots is about to handle
AtRegisterPair ==
    /\ lpc \in {"init_register", "register"}
    /\ idx <= Len(RegisterList)
    /\ Len(RegisterList[idx]) >= 2

UnderStore(s) == is_relative_to(PathOf(s), StoreRoot)

\* C1: every symlink of the mirror directories denotes a path that is a
\* descendant of the store root, whatever messages the listener received.
C1_MirrorTargetsInStore ==
    \A e \in MirrorEntries : IsDescendant(Denoted(e[2]), StoreRoot)

JsonCount(s) == Len(SelectSeq(s, LAMBDA t : t.t = "json"))

\* the listener is in the middle of applying a message
Applying == lpc \in {"clearing", "init_register", "unregister", "register"}

\* C2: every message the agent writes is followed by a newline, and the
\* message the listener decodes from its k-th line is the k-th message sent.
C2_NewlineFramed ==
    peer = "agent" =>
        /\ \A i \in 1..Len(stream) :
              stream[i].t = "json" =>
                  i < Len(stream) /\ stream[i + 1] = NL
        /\ Applying => cur = sent[Len(sent) - JsonCount(stream)]

\* the listener has nothing left to do with what was written so far
ListenerIdle ==
    \/ lpc \in {"closed", "failed"}
    \/ lpc \in {"await_init", "active"} /\ ~CanRead

\* C3: with the agent as peer and no collector activity, once the listener
\* has handled all the agent has sent, the mirror holds exactly one entry
\* digest(r) -> t per pair of the remembered snapshot.
C3_MirrorMatchesSnapshot ==
    (peer = "agent" /\ ~gcActed /\ sent # <<>> /\ ListenerIdle) =>
        MirrorEntries = {<<Digest(StrOf(pr[1])), pr[2]>> : pr \in Items(old_roots)}

PairsOf(l) == {<<PathOf(l[i][1]), PathOf(l[i][2])>> : i \in 1..Len(l)}

LastSent == sent[Len(sent)]

\* C4: the removed and added pairs of an update, applied to the snapshot
\* the agent remembered (remove, then add), give exactly the new scan.
C4_DiffRebuildsScan ==
    [][(AgentPoll /\ sent' # sent) =>
          LET m == sent'[Len(sent')]
          IN /\ (Items(old_roots) \ PairsOf(m.removed)) \cup PairsOf(m.added)
                  = Items(find_roots(gfs, StoreRoot, GcrootsDir).snap)
             /\ old_roots' = find_roots(gfs, StoreRoot, GcrootsDir).snap
       ]_vars

\* an update was sent for a root whose target changed
C4_Witness ==
    /\ Len(sent) >= 2
    /\ \E a \in PairsOf(LastSent.added), r \in PairsOf(LastSent.removed) :
          a[1] = r[1] /\ a[2] # r[2]

\* C5: a polling cycle whose scan equals the remembered snapshot sends
\* nothing and keeps the snapshot; no update is ever sent with both lists
\* empty.
C5_UnchangedScanSendsNothing ==
    /\ [][(AgentPoll /\ find_roots(gfs, StoreRoot, GcrootsDir).k = "snap"
             /\ find_roots(gfs, StoreRoot, GcrootsDir).snap = old_roots) =>
            (sent' = sent /\ stream' = stream /\ old_roots' = old_roots
             /\ apc' = apc)]_vars
    /\ [](\A i \in 1..Len(sent) :
             sent[i].type = "update" =>
                 ~(sent[i].added = <<>> /\ sent[i].removed = <<>>))

\* a polling cycle found the scan equal to a non-empty remembered snapshot
C5_Witness ==
    /\ cycle = "same" /\ apc = "poll" /\ old_roots # <<>>
    /\ find_roots(gfs, StoreRoot, GcrootsDir).snap = old_roots

\* C6: resolve_until_store returns on every filesystem state; the agent is
\* never stuck inside a scan.
C6_ScanReturns == apc \notin {"scan_hung", "poll_hung"}

EloopPath == <<"ELOOP">>

RECURSIVE FollowFrom(_, _, _)
FollowFrom(fs, p, seen) ==
    IF ~is_symlink(fs, p) THEN p
    ELSE IF p \in seen THEN EloopPath
    ELSE FollowFrom(fs, EntryAt(fs, p).target, seen \cup {p})

\* following the chain of the link ends at an existing path under the store
EndsInStore(fs, l) ==
    LET e == FollowFrom(fs, l, {})
    IN EntryAt(fs, e).kind = "file" /\ IsDescendant(e, StoreRoot)

\* C7: the snapshot of find_roots holds a root only if its chain ends at an
\* existing path under the store root.
C7_SnapshotOnlyLiveRoots ==
    apc = "connect" => \A r \in DOMAIN old_roots : EndsInStore(gfs, r)

\* C8: registering a pair whose digest name already exists replaces the
\* entry with the new target, and the listener does not fail.
C8_ReRegisterReplaces ==
    [][(/\ LRegisterStep /\ AtRegisterPair
        /\ UnderStore(RegisterList[idx][2])
        /\ Digest(RegisterList[idx][1]) \in DOMAIN mdirs[vm_gcroots].entries)
       => /\ lpc' # "failed"
          /\ Digest(RegisterList[idx][1]) \in DOMAIN mdirs'[vm_gcroots].entries
          /\ mdirs'[vm_gcroots].entries[Digest(RegisterList[idx][1])]
                = PathOf(RegisterList[idx][2])
      ]_vars

WellFormedList(l) == \A i \in 1..Len(l) : Len(l[i]) >= 2
HasOffendingPair(l) == \E i \in 1..Len(l) : ~UnderStore(l[i][2])

\* C9: in a list with a pair whose target is not under the store root, that
\* pair changes nothing, the listener does not terminate, and every other
\* pair with a target under the store root is registered.
C9_OffendingPairSkipped ==
    [][(/\ LRegisterStep /\ AtRegisterPair
        /\ WellFormedList(RegisterList) /\ HasOffendingPair(RegisterList))
       => /\ lpc' # "failed"
          /\ idx' = idx + 1
          /\ IF ~UnderStore(RegisterList[idx][2])
             THEN mdirs' = mdirs
             ELSE /\ Digest(RegisterList[idx][1])
                        \in DOMAIN mdirs'[vm_gcroots].entries
                  /\ mdirs'[vm_gcroots].entries[Digest(RegisterList[idx][1])]
                        = PathOf(RegisterList[idx][2])
      ]_vars

\* C10: when the stream ends while the listener is active, the listener
\* goes to closed and the mirror entries stay as they were.
C10_CloseKeepsEntries ==
    [][(lpc = "active" /\ stream = <<>> /\ closed /\ lpc' # lpc) =>
          (lpc' = "closed" /\ mdirs' = mdirs)]_vars

\* the listener has closed and entries are still in the guest's directory
C10_Witness ==
    /\ lpc = "closed" /\ Registered
    /\ mdirs[vm_gcroots].entries # <<>>

\* the message on the line the listener is about to read
NextMsg == json_loads(ReadLine(stream))

\* C11: a first message that is not of kind "init", and a later message that
\* is not of kind "update", make the listener fail when it reads them, and
\* the mirror directories stay as they were.
C11_KindChecked ==
    [][(/\ LReadInit \/ LReadUpdate
        /\ NextMsg.ok
        /\ NextMsg.v.type # (IF lpc = "await_init" THEN "init" ELSE "update"))
       => (lpc' = "failed" /\ mdirs' = mdirs)]_vars

\* C12: the first message the agent sends is an init message with the
\* guest identity and exactly the pairs of the initial snapshot, it is the
\* only init message, every later message is an update, and polling starts
\* with the initial snapshot as the remembered one.
C12_InitFirstAndOnce ==
    /\ apc \in {"poll", "poll_hung"} => sent # <<>>
    /\ sent # <<>> =>
          /\ sent[1].type = "init"
          /\ sent[1].id = [u |-> GuestUuid, form |-> "hex"]
          /\ \A i \in 2..Len(sent) : sent[i].type = "update"
    /\ Len(sent) = 1 =>
          /\ PairsOf(sent[1].roots) = Items(old_roots)
          /\ Len(sent[1].roots) = Cardinality(Items(old_roots))

\* the agent sent an init message with a pair and then an update
C12_Witness ==
    /\ peer = "agent" /\ Len(sent) = 2
    /\ sent[1].type = "init" /\ sent[1].roots # <<>>
    /\ sent[2].type = "update"

\* the listener is handling an init message
InitApplying == lpc \in {"clearing", "init_register"}

\* C13: the mirror directory the listener creates and populates is named by
\* the same string the agent puts in the "id" field of the init message: 32
\* hex characters without separators.
C13_DirNamedByIdString ==
    InitApplying => (vm_gcroots = cur.id /\ vm_gcroots.form = "hex")

\* C13, amended: the mirror directory the listener creates and populates is
\* named by the hyphenated form of the identity in the "id" field, and no
\* directory is created under the unseparated hex string.
C13_DirNamedByHyphenatedId ==
    /\ InitApplying =>
          /\ vm_gcroots = [u |-> cur.id.u, form |-> "hyphens"]
          /\ mdirs[vm_gcroots].exists
    /\ \A d \in DirNames : mdirs[d].exists => d.form = "hyphens"

\* the agent's init message is being registered and an entry has been made
C13_Witness ==
    /\ peer = "agent" /\ lpc = "init_register" /\ idx > 1
    /\ cur.id.form = "hex"
    /\ mdirs[vm_gcroots].entries # <<>>

\* the entries a pair list asks for: one per pair whose target passes the
\* listener's test against the store root
ExpectedEntries(l) ==
    {<<Digest(l[i][1]), PathOf(l[i][2])>> :
        i \in {j \in 1..Len(l) : UnderStore(l[j][2])}}

\* C14: when the listener reaches active after an init message, with no
\* collector activity, the guest's directory exists and holds exactly the
\* entries of the init pairs whose target is under the store root, whatever
\* it held before.
C14_InitReplacesDirectory ==
    [][(LRegisterStep /\ lpc = "init_register" /\ lpc' = "active"
          /\ ~gcActed)
       => /\ mdirs'[vm_gcroots].exists
          /\ MirrorEntries' = ExpectedEntries(cur.roots)]_vars

\* the init pairs have all been registered and the stale entry of the
\* earlier session is gone
C14_Witness ==
    /\ lpc = "init_register" /\ ~gcActed
    /\ Len(cur.roots) >= 1 /\ idx > Len(cur.roots)
    /\ MirrorEntries = ExpectedEntries(cur.roots)
    /\ MirrorEntries # {}
    /\ Digest(StaleRoot) \notin DOMAIN mdirs[vm_gcroots].entries

\* the root strings of the well-formed pairs of a list
KeysOf(l) == {l[i][1] : i \in {j \in 1..Len(l) : Len(l[j]) >= 2}}

\* the pair at idx is the first pair of its list that asks for its name
FirstForName ==
    \A i \in 1..(idx - 1) :
        (Len(RegisterList[i]) >= 2 /\ UnderStore(RegisterList[i][2]))
            => RegisterList[i][1] # RegisterList[idx][1]

\* C15: within one update the listener unregisters before it registers and
\* reads no line while it applies a message; so, with no collector activity,
\* an added pair whose root is also in 'removed' is registered without
\* failure and its name then points at the added target.
C15_RemoveThenAdd ==
    /\ [][(lpc = "unregister" => lpc' \in {"unregister", "register", "failed"})
          /\ (lpc = "register" => lpc' \in {"register", "active", "failed"})
          /\ (Applying => ~(LReadInit \/ LReadUpdate))]_vars
    /\ [][(/\ LRegisterStep /\ lpc = "register" /\ AtRegisterPair
           /\ ~gcActed
           /\ UnderStore(cur.added[idx][2])
           /\ cur.added[idx][1] \in KeysOf(cur.removed)
           /\ FirstForName)
          => /\ lpc' = "register" /\ idx' = idx + 1
             /\ Digest(cur.added[idx][1]) \in DOMAIN mdirs'[vm_gcroots].entries
             /\ mdirs'[vm_gcroots].entries[Digest(cur.added[idx][1])]
                   = PathOf(cur.added[idx][2])]_vars

\* an update that re-targets a root has been applied: its name points at
\* the added target
C15_Witness ==
    /\ lpc = "register" /\ ~gcActed /\ idx > Len(cur.added)
    /\ \E i \in 1..Len(cur.added), j \in 1..Len(cur.removed) :
          /\ cur.added[i][1] = cur.removed[j][1]
          /\ cur.added[i][2] # cur.removed[j][2]
          /\ Digest(cur.added[i][1]) \in DOMAIN mdirs[vm_gcroots].entries
          /\ mdirs[vm_gcroots].entries[Digest(cur.added[i][1])]
                = PathOf(cur.added[i][2])

\* the valid roots of the registry: the root links whose chain reaches a
\* path under the store root (a chain that loops reaches none)
ValidRoots(fs) ==
    LET valid == {l \in WalkedLinks(fs, GcrootsDir) :
                     StoreTargetOf(fs, StoreRoot, l).k = "path"}
    IN [l \in valid |-> StoreTargetOf(fs, StoreRoot, l).p]

\* the polling agent has not yet reported the valid roots of the registry
Pending ==
    /\ apc \in {"poll", "poll_hung"}
    /\ ValidRoots(gfs) # old_roots
    /\ Len(sent) < MaxMsgs

\* C16: with a polling loop that keeps turning, valid roots that differ
\* from the remembered snapshot do not stay unreported for ever; the update
\* carries exactly the added and removed pairs and the snapshot advances
\* with that send; a failed send leaves the snapshot alone and nothing is
\* sent after it.
C16_ChangeEventuallySent ==
    /\ [][(AgentPoll /\ sent' # sent) =>
            LET m == sent'[Len(sent')]
            IN /\ Len(sent') = Len(sent) + 1 /\ m.type = "update"
               /\ PairsOf(m.added) = Items(ValidRoots(gfs)) \ Items(old_roots)
               /\ PairsOf(m.removed) = Items(old_roots) \ Items(ValidRoots(gfs))
               /\ old_roots' = ValidRoots(gfs)]_vars
    /\ [][(apc' = "terminated") =>
            (sent' = sent /\ old_roots' = old_roots)]_vars
    /\ []<>(~Pending)

\* the name unregister_roots is about to unlink
AtUnregisterPair ==
    /\ lpc = "unregister"
    /\ idx <= Len(cur.removed)
    /\ Len(cur.removed[idx]) >= 2

\* C17: whatever the collector has deleted, a turn of the clearing loop and
\* a turn of the unregister loop do not fail and go on to the next entry,
\* also when the entry is already gone; a register turn whose name is not
\* there does not fail either.
C17_CollectorTolerated ==
    /\ [][(LClearStep /\ lpc = "clearing") =>
            /\ lpc' \in {"clearing", "init_register"}
            /\ toClear' # toClear /\ toClear' \subseteq toClear]_vars
    /\ [][(LUnregisterStep /\ AtUnregisterPair) =>
            /\ lpc' = "unregister" /\ idx' = idx + 1
            /\ Digest(cur.removed[idx][1])
                  \notin DOMAIN mdirs'[vm_gcroots].entries]_vars
    /\ [][(/\ LRegisterStep /\ AtRegisterPair
           /\ UnderStore(RegisterList[idx][2])
           /\ Digest(RegisterList[idx][1])
                 \notin DOMAIN mdirs[vm_gcroots].entries)
          => (lpc' = lpc /\ idx' = idx + 1)]_vars

\* the collector has removed the entry the unregister loop is about to
\* unlink, or the one the clearing loop, after a first turn, has left on
\* its list
C17_Witness ==
    /\ gcActed
    /\ \/ /\ AtUnregisterPair
           /\ Digest(cur.removed[idx][1])
                 \notin DOMAIN mdirs[vm_gcroots].entries
       \/ /\ lpc = "clearing" /\ Cardinality(toClear) = 1
           /\ \E n \in toClear : n \notin DOMAIN mdirs[vm_gcroots].entries

\* the root strings a message can name
RootStrings == {StrOf(p) : p \in RootLinks}

\* the listener is applying an update that removes the root a and adds it
\* again, and is between the unlink of a and the symlink for a
InWindow(a) ==
    /\ lpc \in {"unregister", "register"}
    /\ "added" \in DOMAIN cur
    /\ \E i \in 1..Len(cur.added) :
          /\ Len(cur.added[i]) >= 2 /\ cur.added[i][1] = a
          /\ lpc = "register" => i >= idx
    /\ \A i \in 1..Len(cur.added) :
          (lpc = "register" /\ i < idx /\ Len(cur.added[i]) >= 2)
              => cur.added[i][1] # a
    /\ \E j \in 1..Len(cur.removed) :
          /\ Len(cur.removed[j]) >= 2 /\ cur.removed[j][1] = a
          /\ lpc = "unregister" => j < idx

\* C18: while the listener is between the unlink and the symlink of a root
\* that an update removes and adds again, the mirror directory has no entry
\* under that root's name; the state is one the collector can observe.
C18_NoEntryInWindow ==
    \A a \in RootStrings :
        InWindow(a) => Digest(a) \notin DOMAIN mdirs[vm_gcroots].entries

\* without any collector activity, the listener stands between the unlink
\* of the old entry and the symlink of the new one, and no entry is there
C18_Witness ==
    /\ ~gcActed
    /\ \E a \in RootStrings :
          /\ InWindow(a)
          /\ Digest(a) \notin DOMAIN mdirs[vm_gcroots].entries
          /\ \E i \in 1..Len(cur.added), j \in 1..Len(cur.removed) :
                /\ cur.added[i][1] = a /\ cur.removed[j][1] = a
                /\ cur.added[i][2] # cur.removed[j][2]

\* an update that lacks 'added' or holds a pair that is not a pair
MalformedUpdate(m) ==
    \/ "added" \notin DOMAIN m
    \/ ~WellFormedList(m.added)
    \/ ~WellFormedList(m.removed)

\* C19: an update that lacks a required field or holds a malformed pair is
\* not applied at all: no step the listener takes on it changes the mirror
\* directories, so they are at the failure what they were when the message
\* was read.
C19_MalformedNotApplied ==
    [][(/\ LUnregisterStep \/ LRegisterStep
        /\ lpc \in {"unregister", "register"}
        /\ MalformedUpdate(cur))
       => mdirs' = mdirs]_vars

\* the path reached from p after n dereferences
RECURSIVE Hop(_, _, _)
Hop(fs, p, n) ==
    IF n = 0 THEN p ELSE Hop(fs, EntryAt(fs, p).target, n - 1)

\* the first k paths of the chain from p are symlinks outside the store and
\* the next one has the store root as an ancestor
FirstStoreHop(fs, p, k) ==
    /\ \A j \in 0..(k - 1) :
          /\ is_symlink(fs, Hop(fs, p, j))
          /\ ~IsDescendant(Hop(fs, p, j), StoreRoot)
    /\ IsDescendant(Hop(fs, p, k), StoreRoot)

\* C20: resolve_until_store returns p itself when p has the store root as
\* an ancestor, and for a chain of symlinks outside the store that ends at
\* a link into the store it returns the first path of the chain under the
\* store root, whatever that path is or points to; find_roots records that
\* path for the root link.
C20_FirstPathUnderStore ==
    /\ \A p \in GuestPaths : \A k \in 0..Cardinality(GuestPaths) :
          FirstStoreHop(gfs, p, k) =>
              resolve_until_store(gfs, StoreRoot, p)
                  = [k |-> "path", p |-> Hop(gfs, p, k)]
    /\ apc = "connect" =>
          \A r \in WalkedLinks(gfs, GcrootsDir) :
              \A k \in 0..Cardinality(GuestPaths) :
                  FirstStoreHop(gfs, gfs[r].target, k) =>
                      /\ r \in DOMAIN old_roots
                      /\ old_roots[r] = Hop(gfs, gfs[r].target, k)

\* the scan recorded, for a root that reaches the store through another
\* link, a store path that is itself a link to another store path
C20_Witness ==
    /\ apc = "connect"
    /\ \E r \in DOMAIN old_roots :
          /\ FirstStoreHop(gfs, gfs[r].target, 1)
          /\ old_roots[r] = Hop(gfs, gfs[r].target, 1)
          /\ is_symlink(gfs, old_roots[r])
          /\ gfs[old_roots[r]].target # old_roots[r]

====
